---- MODULE Spec2Model ----
(***************************************************************************)
(* Model of src/index.js: an Express gateway with four POST endpoints that *)
(* forward a prompt and/or an uploaded file to model.generateContent and   *)
(* relay the text found by extractText.                                    *)
(*                                                                         *)
(* JavaScript values are tagged records: [t |-> "undefined"],              *)
(* [t |-> "null"], [t |-> "string", v |-> s], [t |-> "number", v |-> n],   *)
(* [t |-> "array", items |-> <<...>>], [t |-> "object", ...fields] and     *)
(* [t |-> "function", ...].  A property whose read raises is the marker    *)
(* [t |-> "throwing-getter"]; a property that refers back to an enclosing  *)
(* object is [t |-> "circular"].                                           *)
(***************************************************************************)
EXTENDS Integers, Sequences, FiniteSets, TLC

\* ------------------------------------------------------------------ bounds
\* longest array generated for response.candidates and content.parts
MaxItems == 1
\* number of HTTP requests that may be in flight at once
NumReqs == 2

\* --------------------------------------------------------------- JS values
Undefined == [t |-> "undefined"]
Null == [t |-> "null"]
Str(s) == [t |-> "string", v |-> s]
Num(n) == [t |-> "number", v |-> n]
Arr(items) == [t |-> "array", items |-> items]
ThrowingGetter == [t |-> "throwing-getter"]
Circular == [t |-> "circular"]
\* a method: calling it either raises or returns ret
Fn(throws, ret) == [t |-> "function", throws |-> throws, ret |-> ret]

\* v is null or undefined: what ?. and ?? test for
IsNullish(v) == v.t \in {"undefined", "null"}

\* ToBoolean(v), as used by `if (text)` and `!prompt`
Truthy(v) ==
  CASE v.t = "undefined" -> FALSE
    [] v.t = "null" -> FALSE
    [] v.t = "string" -> v.v # ""
    [] v.t = "number" -> v.v # 0
    [] OTHER -> TRUE

\* v.key : a missing property, or any property of a primitive, reads undefined
Prop(v, key) ==
  IF v.t = "object" /\ key \in DOMAIN v THEN v[key] ELSE Undefined

\* v[i], i counted from 0 as in the source
Index(v, i) ==
  IF v.t = "array" /\ i < Len(v.items) THEN v.items[i + 1] ELSE Undefined

\* v?.key
OptProp(v, key) == IF IsNullish(v) THEN Undefined ELSE Prop(v, key)

\* v?.[i]
OptIndex(v, i) == IF IsNullish(v) THEN Undefined ELSE Index(v, i)

\* ------------------------------------------------- the response value space
TextValues ==
  {Undefined, Null, Str(""), Str("hello"), Num(0), Num(42), ThrowingGetter}

PartValues == {Undefined, Null} \cup {[t |-> "object", text |-> x] : x \in TextValues}

SeqsUpTo(S, n) == UNION {[1..k -> S] : k \in 0..n}

PartsValues == {Undefined, Null} \cup {Arr(s) : s \in SeqsUpTo(PartValues, MaxItems)}

ContentValues == {Undefined, Null} \cup {[t |-> "object", parts |-> p] : p \in PartsValues}

CandidateValues ==
  {Undefined, Null} \cup {[t |-> "object", content |-> c] : c \in ContentValues}

CandidatesValues ==
  {Undefined, Null} \cup {Arr(s) : s \in SeqsUpTo(CandidateValues, MaxItems)}

\* the `text` property of a response: missing, a plain string property (not
\* callable), or a method
AccessorValues ==
  {Undefined, Str("fallback"), Fn(TRUE, Undefined)}
    \cup {Fn(FALSE, r) : r \in {Undefined, Null, Str(""), Str("fallback"), Num(42)}}

ResponseObjects ==
  {[t |-> "object", candidates |-> c, text |-> a, self |-> s] :
     c \in CandidatesValues, a \in AccessorValues, s \in {Undefined, Circular}}

Responses == {Undefined, Null} \cup ResponseObjects

\* ------------------------------------------------------------ JSON.stringify
\* property order of the objects of this model (JSON.stringify walks the own
\* properties in insertion order)
PropOrder == <<"response", "candidates", "content", "parts", "text", "self">>

\* JSON.stringify raises on a circular structure and when a getter raises
RECURSIVE StringifyThrows(_)
StringifyThrows(v) ==
  CASE v.t \in {"throwing-getter", "circular"} -> TRUE
    [] v.t = "array" -> \E i \in 1..Len(v.items) : StringifyThrows(v.items[i])
    [] v.t = "object" -> \E k \in DOMAIN v \ {"t"} : StringifyThrows(v[k])
    [] OTHER -> FALSE

\* undefined and functions have no JSON text: dropped from objects, null in arrays
NoJson(v) == v.t \in {"undefined", "function"}

\* the serialised properties of object v, in order
RECURSIVE KeysFrom(_, _)
KeysFrom(v, i) ==
  IF i > Len(PropOrder) THEN <<>>
  ELSE IF PropOrder[i] \in DOMAIN v /\ ~NoJson(v[PropOrder[i]])
       THEN <<PropOrder[i]>> \o KeysFrom(v, i + 1)
       ELSE KeysFrom(v, i + 1)

RECURSIVE Ser(_, _)
RECURSIVE SerItems(_, _, _)
RECURSIVE SerProps(_, _, _, _)

\* the items of an array from position i on, one per line at indentation ind
SerItems(items, i, ind) ==
  IF i > Len(items) THEN ""
  ELSE ind \o (IF NoJson(items[i]) THEN "null" ELSE Ser(items[i], ind))
       \o (IF i < Len(items) THEN ",\n" ELSE "\n")
       \o SerItems(items, i + 1, ind)

\* the properties keys[i..] of object v, one per line at indentation ind
SerProps(v, keys, i, ind) ==
  IF i > Len(keys) THEN ""
  ELSE ind \o "\"" \o keys[i] \o "\": " \o Ser(v[keys[i]], ind)
       \o (IF i < Len(keys) THEN ",\n" ELSE "\n")
       \o SerProps(v, keys, i + 1, ind)

\* the JSON text of v with a 2-space indent, v standing at indentation ind
Ser(v, ind) ==
  CASE v.t = "null" -> "null"
    [] v.t = "string" -> "\"" \o v.v \o "\""
    [] v.t = "number" -> ToString(v.v)
    [] v.t = "array" ->
         IF Len(v.items) = 0 THEN "[]"
         ELSE "[\n" \o SerItems(v.items, 1, ind \o "  ") \o ind \o "]"
    [] v.t = "object" ->
         LET keys == KeysFrom(v, 1)
         IN IF Len(keys) = 0 THEN "{}"
            ELSE "{\n" \o SerProps(v, keys, 1, ind \o "  ") \o ind \o "}"

\* JSON.stringify(v, null, 2) for a v that does not make it raise
JSONStringify(v) == IF NoJson(v) THEN Undefined ELSE Str(Ser(v, ""))

\* --------------------------------------------------------------- extractText
FailedToParse == Str("Failed to parse AI response.")

\* response?.candidates?.[0]?.content?.parts?.[0]?.text
PathA(response) ==
  OptProp(
    OptIndex(
      OptProp(OptProp(OptIndex(OptProp(response, "candidates"), 0), "content"), "parts"),
      0),
    "text")

\* response?.text() : [threw, calls, v]
PathB(response) ==
  IF IsNullish(response) THEN [threw |-> FALSE, calls |-> 0, v |-> Undefined]
  ELSE LET f == Prop(response, "text")
       IN IF f.t # "function" THEN [threw |-> TRUE, calls |-> 0, v |-> Undefined]
          ELSE IF f.throws THEN [threw |-> TRUE, calls |-> 1, v |-> Undefined]
          ELSE [threw |-> FALSE, calls |-> 1, v |-> f.ret]

\* TryBody with the two paths tried in the other order:
\* response?.text() ?? response?.candidates?.[0]?.content?.parts?.[0]?.text
TryBodyAccessorFirst(response) ==
  LET b == PathB(response)
  IN IF b.threw THEN b
     ELSE LET v == IF IsNullish(b.v) THEN PathA(response) ELSE b.v
          IN IF v.t = "throwing-getter" THEN [b EXCEPT !.threw = TRUE, !.v = Undefined]
             ELSE IF Truthy(v) THEN [b EXCEPT !.v = v]
             ELSE IF StringifyThrows(response)
                  THEN [b EXCEPT !.threw = TRUE, !.v = Undefined]
                  ELSE [b EXCEPT !.v = JSONStringify(response)]

\* the body of the try block: [threw, calls, v]
TryBody(response) ==
  LET a == PathA(response)
  IN IF a.t = "throwing-getter" THEN [threw |-> TRUE, calls |-> 0, v |-> Undefined]
     ELSE LET t == IF IsNullish(a) THEN PathB(response)
                   ELSE [threw |-> FALSE, calls |-> 0, v |-> a]
          IN IF t.threw THEN t
             ELSE IF Truthy(t.v) THEN t
             ELSE IF StringifyThrows(response)
                  THEN [threw |-> TRUE, calls |-> t.calls, v |-> Undefined]
                  ELSE [threw |-> FALSE, calls |-> t.calls, v |-> JSONStringify(response)]

\* extractText without its try/catch: what the body raises leaves the function
extractTextNoCatch(response) ==
  LET b == TryBody(response)
  IN [ret |-> b.v, raised |-> b.threw, calls |-> b.calls, logged |-> FALSE]

\* extractText(response): ret is the returned value, raised tells whether an
\* exception leaves the function, calls counts invocations of response.text,
\* logged tells whether console.error ran
extractText(response) ==
  LET b == TryBody(response)
  IN IF b.threw
     THEN [ret |-> FailedToParse, raised |-> FALSE, calls |-> b.calls, logged |-> TRUE]
     ELSE [ret |-> b.v, raised |-> FALSE, calls |-> b.calls, logged |-> FALSE]

\* ------------------------------------------------------ fileToGenerativePart
B64Chars ==
  <<"A", "B", "C", "D", "E", "F", "G", "H", "I", "J", "K", "L", "M",
    "N", "O", "P", "Q", "R", "S", "T", "U", "V", "W", "X", "Y", "Z",
    "a", "b", "c", "d", "e", "f", "g", "h", "i", "j", "k", "l", "m",
    "n", "o", "p", "q", "r", "s", "t", "u", "v", "w", "x", "y", "z",
    "0", "1", "2", "3", "4", "5", "6", "7", "8", "9", "+", "/">>

B64(n) == B64Chars[n + 1]

\* buffer.toString("base64") of a sequence of bytes
RECURSIVE Base64(_)
Base64(b) ==
  IF Len(b) = 0 THEN ""
  ELSE IF Len(b) = 1
       THEN B64(b[1] \div 4) \o B64((b[1] % 4) * 16) \o "=="
  ELSE IF Len(b) = 2
       THEN B64(b[1] \div 4) \o B64((b[1] % 4) * 16 + b[2] \div 16)
            \o B64((b[2] % 16) * 4) \o "="
  ELSE B64(b[1] \div 4) \o B64((b[1] % 4) * 16 + b[2] \div 16)
       \o B64((b[2] % 16) * 4 + b[3] \div 64) \o B64(b[3] % 64)
       \o Base64(SubSeq(b, 4, Len(b)))

fileToGenerativePart(buffer, mimeType) ==
  [t |-> "object",
   inlineData |-> [t |-> "object", data |-> Str(Base64(buffer)), mimeType |-> mimeType]]

\* ------------------------------------------------------------ HTTP requests
Endpoints == {"/generate-text", "/generate-from-image",
              "/generate-from-document", "/generate-from-audio"}

FileEndpoints == Endpoints \ {"/generate-text"}

\* req.body.prompt: not sent, sent empty, sent with text
Prompts == {Undefined, Str(""), Str("Describe this")}

Bodies == {[t |-> "object", prompt |-> p] : p \in Prompts}

\* req.file as multer leaves it: undefined, or the upload held in memory
Files ==
  {Undefined,
   [t |-> "object", buffer |-> <<77, 97>>, mimetype |-> Str("image/png")]}

\* values model.generateContent may resolve to
CallResults ==
  {Undefined,
   [t |-> "object", response |-> Undefined],
   [t |-> "object", response |-> Null],
   [t |-> "object",
    response |-> [t |-> "object", candidates |-> Undefined,
                  text |-> Undefined, self |-> Undefined]],
   [t |-> "object",
    response |->
      [t |-> "object",
       candidates |->
         Arr(<<[t |-> "object",
                content |-> [t |-> "object",
                             parts |-> Arr(<<[t |-> "object",
                                              text |-> Str("hello")]>>)]]>>),
       text |-> Fn(FALSE, Str("fallback")), self |-> Undefined]]}

\* errors model.generateContent may reject with
CallErrors ==
  {[t |-> "error", message |-> Str("quota exceeded")],
   [t |-> "error", message |-> Str("API key not valid")]}

Reqs == 1..NumReqs

\* a request slot no request has arrived on
Idle ==
  [pc |-> "idle", endpoint |-> "none", body |-> Undefined, file |-> Undefined,
   calls |-> 0, arg |-> Undefined, call |-> "none", result |-> Undefined,
   sent |-> 0, status |-> 0, resBody |-> Undefined]

\* res.status(status).json(body): the response goes out and the handler ends
Send(rq, status, body) ==
  [rq EXCEPT !.sent = @ + 1, !.status = status, !.resBody = body, !.pc = "done"]

ErrorBody(message) == [t |-> "object", error |-> message]

\* model.generateContent(arg) is issued and the handler suspends on it
IssueCall(rq, arg) ==
  [rq EXCEPT !.calls = @ + 1, !.arg = arg, !.call = "pending", !.pc = "awaitCall"]

\* BuildContents with push in the place of unshift
BuildContentsPush(prompt, part) ==
  IF Truthy(prompt) THEN Arr(<<part, prompt>>) ELSE Arr(<<part>>)

\* contents = [part]; if (prompt) contents.unshift(prompt)
BuildContents(prompt, part) ==
  IF Truthy(prompt) THEN Arr(<<prompt, part>>) ELSE Arr(<<part>>)

\* the message of the 400 answer of each endpoint
RequiredMessage(endpoint) ==
  CASE endpoint = "/generate-text" -> Str("Prompt is required.")
    [] endpoint = "/generate-from-image" -> Str("Image file is required.")
    [] endpoint = "/generate-from-document" -> Str("Document file is required.")
    [] endpoint = "/generate-from-audio" -> Str("Audio file is required.")

\* TextHandler testing `prompt === undefined` in the place of `!prompt`
TextHandlerStrict(rq, body) ==
  LET arrived == [rq EXCEPT !.endpoint = "/generate-text", !.body = body]
      prompt == Prop(body, "prompt")
  IN IF prompt = Undefined
     THEN Send(arrived, 400, ErrorBody(RequiredMessage("/generate-text")))
     ELSE IssueCall(arrived, prompt)

\* the handler of /generate-text up to its first await
TextHandler(rq, body) ==
  LET arrived == [rq EXCEPT !.endpoint = "/generate-text", !.body = body]
      prompt == Prop(body, "prompt")
  IN IF ~Truthy(prompt)
     THEN Send(arrived, 400, ErrorBody(RequiredMessage("/generate-text")))
     ELSE IssueCall(arrived, prompt)

\* the handler of a file endpoint up to its first await
FileHandler(rq, endpoint, body, file) ==
  LET arrived == [rq EXCEPT !.endpoint = endpoint, !.body = body, !.file = file]
  IN IF ~Truthy(file)
     THEN Send(arrived, 400, ErrorBody(RequiredMessage(endpoint)))
     ELSE LET prompt == Prop(body, "prompt")
              part == fileToGenerativePart(Prop(file, "buffer"), Prop(file, "mimetype"))
          IN IssueCall(arrived,
                       [t |-> "object", contents |-> BuildContents(prompt, part)])

\* catch (error) { res.status(500).json({ error: error.message }) }
OnError(rq, error) == Send(rq, 500, ErrorBody(error.message))

\* `const result = await model.generateContent(..)` resumes with result; reading
\* result.response of null or undefined raises a TypeError, else the handler
\* suspends on `await result.response`
OnResolved(rq, result) ==
  LET got == [rq EXCEPT !.call = "resolved", !.result = result]
  IN IF IsNullish(result)
     THEN OnError(got,
                  [t |-> "error",
                   message |-> Str("Cannot read properties of " \o result.t
                                   \o " (reading 'response')")])
     ELSE [got EXCEPT !.pc = "awaitResponse"]

\* OnRejected answering with a fixed message in the place of error.message
OnRejectedGeneric(rq, error) ==
  OnError([rq EXCEPT !.call = "rejected", !.result = error],
          [t |-> "error", message |-> Str("Internal Server Error")])

\* OnRejected issuing the call once more in the place of answering
OnRejectedRetry(rq, error) ==
  IssueCall([rq EXCEPT !.result = error], rq.arg)

\* the await of generateContent raises error, which the catch block answers
OnRejected(rq, error) ==
  OnError([rq EXCEPT !.call = "rejected", !.result = error], error)

\* aiResponse = await result.response; generatedText = extractText(aiResponse);
\* res.status(200).json({ generatedText })
OnResponse(rq) ==
  LET aiResponse == Prop(rq.result, "response")
      x == extractText(aiResponse)
  IN IF x.raised
     THEN OnError(rq, [t |-> "error", message |-> Str("extractText raised")])
     ELSE Send(rq, 200, [t |-> "object", generatedText |-> x.ret])

VARIABLES xResponse, xResult, reqs

vars == <<xResponse, xResult, reqs>>

NotRun == [ret |-> Undefined, raised |-> FALSE, calls |-> 0, logged |-> FALSE, run |-> FALSE]

\* ------------------------------------------------------------------ actions
\* one call extractText(xResponse)
ExtractText ==
  /\ ~xResult.run
  /\ xResult' = extractText(xResponse) @@ [run |-> TRUE]
  /\ UNCHANGED <<xResponse, reqs>>

PostGenerateText(r) ==
  /\ reqs[r].pc = "idle"
  /\ \E body \in Bodies : reqs' = [reqs EXCEPT ![r] = TextHandler(@, body)]
  /\ UNCHANGED <<xResponse, xResult>>

PostGenerateFromImage(r) ==
  /\ reqs[r].pc = "idle"
  /\ \E body \in Bodies, file \in Files :
       reqs' = [reqs EXCEPT ![r] = FileHandler(@, "/generate-from-image", body, file)]
  /\ UNCHANGED <<xResponse, xResult>>

PostGenerateFromDocument(r) ==
  /\ reqs[r].pc = "idle"
  /\ \E body \in Bodies, file \in Files :
       reqs' = [reqs EXCEPT ![r] = FileHandler(@, "/generate-from-document", body, file)]
  /\ UNCHANGED <<xResponse, xResult>>

PostGenerateFromAudio(r) ==
  /\ reqs[r].pc = "idle"
  /\ \E body \in Bodies, file \in Files :
       reqs' = [reqs EXCEPT ![r] = FileHandler(@, "/generate-from-audio", body, file)]
  /\ UNCHANGED <<xResponse, xResult>>

\* the external call of request r resolves and its handler resumes
GenerateContentResolves(r) ==
  /\ reqs[r].pc = "awaitCall"
  /\ \E result \in CallResults : reqs' = [reqs EXCEPT ![r] = OnResolved(@, result)]
  /\ UNCHANGED <<xResponse, xResult>>

\* the external call of request r rejects and its handler resumes in the catch
GenerateContentRejects(r) ==
  /\ reqs[r].pc = "awaitCall"
  /\ \E error \in CallErrors : reqs' = [reqs EXCEPT ![r] = OnRejected(@, error)]
  /\ UNCHANGED <<xResponse, xResult>>

\* the handler of request r resumes after `await result.response`
ResponseAwaited(r) ==
  /\ reqs[r].pc = "awaitResponse"
  /\ reqs' = [reqs EXCEPT ![r] = OnResponse(@)]
  /\ UNCHANGED <<xResponse, xResult>>

\* ----------------------------------------------------------- specifications
\* the server: requests arrive on the free slots and run interleaved
Init ==
  /\ reqs = [r \in Reqs |-> Idle]
  /\ xResponse = Undefined
  /\ xResult = NotRun

Next ==
  \E r \in Reqs :
    \/ PostGenerateText(r)
    \/ PostGenerateFromImage(r)
    \/ PostGenerateFromDocument(r)
    \/ PostGenerateFromAudio(r)
    \/ GenerateContentResolves(r)
    \/ GenerateContentRejects(r)
    \/ ResponseAwaited(r)

Spec == Init /\ [][Next]_vars

\* extractText alone, on every response value of the model
XInit ==
  /\ xResponse \in Responses
  /\ xResult = NotRun
  /\ reqs = [r \in Reqs |-> Idle]

XNext == ExtractText

SpecExtract == XInit /\ [][XNext]_vars

\* ================================================================== claims
\* ---- extractText (checked under SpecExtract)
\* the value of path A on the response under test
A == PathA(xResponse)

\* null, undefined or the empty string: no usable text
NoText(v) == v \in {Undefined, Null, Str("")}

NonEmptyString(v) == v.t = "string" /\ v.v # ""

\* the response under test is an object whose text property is a method that
\* returns without raising
HasWorkingAccessor ==
  /\ xResponse.t = "object"
  /\ xResponse.text.t = "function"
  /\ ~xResponse.text.throws

\* C1: extractText returns a string, never null or undefined, for every
\* response value.
C1_ReturnsString == xResult.run => xResult.ret.t = "string"

\* C2: when path A is the empty string and response.text() returns a non-empty
\* string s, extractText returns s (stated for the responses that serialize,
\* so that no other failure is involved).
C2_EmptyPathAFallsBack ==
  (/\ xResult.run
   /\ A = Str("")
   /\ ~StringifyThrows(xResponse)
   /\ HasWorkingAccessor
   /\ NonEmptyString(xResponse.text.ret))
  => xResult.ret = xResponse.text.ret

\* C3: for a response object where neither path yields text, the object having
\* no text accessor included, the result is the 2-space JSON text of the
\* response and not the error sentinel.
C3_NoTextGivesJson ==
  (/\ xResult.run
   /\ xResponse.t = "object"
   /\ NoText(A)
   /\ \/ xResponse.text = Undefined
      \/ HasWorkingAccessor /\ NoText(xResponse.text.ret)
   /\ ~StringifyThrows(xResponse))
  => /\ xResult.ret = Str(Ser(xResponse, ""))
     /\ xResult.ret # FailedToParse

\* reading path A raises
AThrows == A = ThrowingGetter

\* path B is attempted and the attempt raises: the text property is not
\* callable, or the method raises
BThrows ==
  /\ ~AThrows
  /\ IsNullish(A)
  /\ xResponse.t = "object"
  /\ (xResponse.text.t # "function" \/ xResponse.text.throws)

\* the value `text` takes when neither path raises
TextFound ==
  IF ~IsNullish(A) THEN A
  ELSE IF xResponse.t = "object" THEN xResponse.text.ret
  ELSE Undefined

\* the serialization is reached and raises
SerThrows ==
  /\ ~AThrows
  /\ ~BThrows
  /\ ~Truthy(TextFound)
  /\ StringifyThrows(xResponse)

\* C4: extractText never raises, and whenever path A, the text accessor or the
\* serialization raises, it returns exactly "Failed to parse AI response.".
C4_FailuresGiveSentinel ==
  xResult.run =>
    /\ ~xResult.raised
    /\ (AThrows \/ BThrows \/ SerThrows)
         => xResult.ret = Str("Failed to parse AI response.")

\* a circular response whose path A is empty: the serialization raised and was
\* caught
C4_Witness ==
  /\ xResult.run
  /\ xResponse.t = "object"
  /\ xResponse.self = Circular
  /\ A = Str("")
  /\ xResult.ret = Str("Failed to parse AI response.")
  /\ xResult.logged

\* C5: a non-empty string on path A is the result and the text accessor is not
\* invoked; when path A is null or undefined and response.text() returns a
\* non-empty string, that string is the result.
C5_PriorityOrder ==
  xResult.run =>
    /\ NonEmptyString(A) => (xResult.ret = A /\ xResult.calls = 0)
    /\ (IsNullish(A) /\ HasWorkingAccessor /\ NonEmptyString(xResponse.text.ret))
         => (xResult.ret = xResponse.text.ret /\ xResult.calls = 1)

\* path A holds "hello" while the accessor would return "fallback"
C5_Witness ==
  /\ xResult.run
  /\ A = Str("hello")
  /\ xResponse.text = Fn(FALSE, Str("fallback"))
  /\ xResult.ret = Str("hello")
  /\ xResult.calls = 0

\* ---- the endpoints (checked under Spec)
\* the request rq lacks the input its endpoint requires
LacksInput(rq) ==
  IF rq.endpoint = "/generate-text"
  THEN rq.body.prompt \in {Undefined, Str("")}
  ELSE rq.file = Undefined

\* C6: a request that lacks its required input is answered 400 with the fixed
\* message of its endpoint, and no external call is issued for it.
C6_MissingInputIs400 ==
  \A r \in Reqs :
    LET rq == reqs[r]
    IN (rq.pc # "idle" /\ LacksInput(rq)) =>
         /\ rq.pc = "done"
         /\ rq.status = 400
         /\ rq.sent = 1
         /\ rq.calls = 0
         /\ rq.call = "none"
         /\ rq.resBody =
              [t |-> "object",
               error |->
                 CASE rq.endpoint = "/generate-text" -> Str("Prompt is required.")
                   [] rq.endpoint = "/generate-from-image" ->
                        Str("Image file is required.")
                   [] rq.endpoint = "/generate-from-document" ->
                        Str("Document file is required.")
                   [] rq.endpoint = "/generate-from-audio" ->
                        Str("Audio file is required.")]

\* an image request without file, and a text request with an empty prompt,
\* both answered 400
C6_Witness ==
  /\ reqs[1].endpoint = "/generate-from-image"
  /\ reqs[1].file = Undefined
  /\ reqs[1].status = 400
  /\ reqs[2].endpoint = "/generate-text"
  /\ reqs[2].body.prompt = Str("")
  /\ reqs[2].status = 400

\* C7: when the external call of a validated request rejects with an error of
\* message m, the answer is 500 with body { error: m }, never 200.
C7_RejectionIs500 ==
  \A r \in Reqs :
    LET rq == reqs[r]
    IN rq.call = "rejected" =>
         /\ rq.pc = "done"
         /\ rq.sent = 1
         /\ rq.status = 500
         /\ rq.resBody = [t |-> "object", error |-> rq.result.message]

\* an audio request whose call rejected with "quota exceeded"
C7_Witness ==
  \E r \in Reqs :
    /\ reqs[r].endpoint = "/generate-from-audio"
    /\ reqs[r].call = "rejected"
    /\ reqs[r].status = 500
    /\ reqs[r].resBody = [t |-> "object", error |-> Str("quota exceeded")]

IsBinaryPart(v) == v.t = "object" /\ "inlineData" \in DOMAIN v

\* C8: in the file endpoints the parts passed to the external call are
\* [prompt, binaryPart] for a non-empty prompt and [binaryPart] otherwise:
\* the prompt first, and exactly one binary part.
C8_ContentsOrder ==
  \A r \in Reqs :
    LET rq == reqs[r]
    IN (rq.endpoint \in FileEndpoints /\ rq.calls > 0) =>
         LET items == rq.arg.contents.items
             part == fileToGenerativePart(rq.file.buffer, rq.file.mimetype)
         IN /\ items = IF NonEmptyString(rq.body.prompt)
                       THEN <<rq.body.prompt, part>>
                       ELSE <<part>>
            /\ IsBinaryPart(items[Len(items)])
            /\ Cardinality({i \in 1..Len(items) : IsBinaryPart(items[i])}) = 1

\* a document request with a prompt: two parts were passed, the prompt first
C8_Witness ==
  \E r \in Reqs :
    /\ reqs[r].endpoint = "/generate-from-document"
    /\ reqs[r].calls = 1
    /\ Len(reqs[r].arg.contents.items) = 2
    /\ reqs[r].arg.contents.items[1] = Str("Describe this")

\* C9: under any interleaving, a validated request issues exactly one external
\* call, never a second one, and sends exactly one response, only after its
\* own call has settled; while the call is pending no response is sent.
C9_OneCallOneResponse ==
  \A r \in Reqs :
    LET rq == reqs[r]
    IN /\ rq.calls <= 1
       /\ rq.sent <= 1
       /\ (rq.pc # "idle" /\ ~LacksInput(rq)) => rq.calls = 1
       /\ rq.call = "pending" => (rq.sent = 0 /\ rq.pc = "awaitCall")
       /\ (rq.sent = 1 /\ ~LacksInput(rq)) => rq.call \in {"resolved", "rejected"}
       /\ rq.call \in {"resolved", "rejected"} =>
            \/ rq.pc = "done" /\ rq.sent = 1
            \/ rq.pc = "awaitResponse" /\ rq.sent = 0
       /\ rq.pc = "done" <=> rq.sent = 1

\* request 2 has been answered 200 while the call of request 1 is still pending
C9_Witness ==
  /\ reqs[1].call = "pending"
  /\ reqs[1].sent = 0
  /\ reqs[2].pc = "done"
  /\ reqs[2].call = "resolved"
  /\ reqs[2].status = 200

\* C10: whenever the external call resolves, whatever the resolved value and
\* its response field, the answer is 200 with a string generatedText, never 500.
C10_ResolvedIs200String ==
  \A r \in Reqs :
    LET rq == reqs[r]
    IN (rq.call = "resolved" /\ rq.pc = "done") =>
         /\ rq.status = 200
         /\ rq.resBody.generatedText.t = "string"

====
